---- MODULE Spec2Model ----
(***************************************************************************)
(* A model of abstract-path-js (src/src/path.ts): the generic Path         *)
(* container, the escaping codec, the matrix path builder and the          *)
(* matrix element model.                                                   *)
(*                                                                         *)
(* A JavaScript string is a sequence of one-character strings, so that     *)
(* tokenizing, escaping and joining are computed character by character.   *)
(* The values null and undefined are the one-element sequences Null and    *)
(* Undefined, whose only element is longer than one character and so is    *)
(* no string the program can hold.                                         *)
(***************************************************************************)
EXTENDS Integers, Sequences, FiniteSets, TLC

VARIABLES
    builder,    \* MatrixPath.parse: the MatrixPathBuilder (name, attr, attrName, path, lastDelim)
    pstate,     \* MatrixPath.parse: "parsing", "returned" or "thrown"
    result,     \* MatrixPath.parse: the path returned, or Undefined
    consumed,   \* MatrixPath.parse: the tokens taken from the tokenizer so far
    text,       \* parse / toString scenarios: the input string (or element value)
    segments,   \* matrix scenario: the segments the input string is written from
    pathObj,    \* parse / toString scenarios: the path built from the input
    rendered,   \* parse / toString scenarios: pathObj.toString()
    reparsed,   \* parse / toString scenarios: the path parsed from rendered
    pc,         \* parse / toString scenarios: position in the scenario
    prev,       \* derivations: the receiver of the last derivation
    args,       \* derivations: the arguments of the last derivation
    recv,       \* derivations: the current path object
    origin,     \* derivations: the concrete class of the first receiver
    lastOp,     \* derivations: the derivation applied last, or "none"
    lhs,        \* predicates: the receiver (a path or a path element)
    rhs,        \* predicates: the argument (a path or a path element)
    verdict,    \* predicates: the boolean returned
    op,         \* predicates: the operation to apply, then "done"
    heap,       \* ownership: the arrays allocated so far; a reference is an index
    objs        \* ownership: the Path objects built so far

builderVars == <<builder, pstate, result, consumed>>
pathVars == <<text, segments, pathObj, rendered, reparsed, pc>>
deriveVars == <<recv, origin, lastOp, prev, args>>
matchVars == <<lhs, rhs, verdict, op>>
ownVars == <<heap, objs>>
vars == <<builderVars, pathVars, deriveVars, matchVars, ownVars>>

(***************************************************************************)
(* Bounds of the model.                                                    *)
(***************************************************************************)
MaxLen == 4        \* longest input string of the Path specification
MaxTokens == 7     \* most tokens MatrixPath.parse takes in the builder specification
MaxSegments == 3   \* most segments of a matrix input string
MaxElems == 3      \* most elements of a path in the derivation and predicate specifications

(***************************************************************************)
(* JavaScript values.                                                      *)
(***************************************************************************)
Null == <<"#null">>
Undefined == <<"#undefined">>

\* String(value) (path.ts:282, path.ts:445)
String(value) ==
    IF value = Null THEN <<"n", "u", "l", "l">>
    ELSE IF value = Undefined THEN <<"u", "n", "d", "e", "f", "i", "n", "e", "d">>
    ELSE value

\* Array.prototype.join(sep) over an array of strings
RECURSIVE Join(_, _)
Join(strs, sep) ==
    IF Len(strs) = 0 THEN <<>>
    ELSE IF Len(strs) = 1 THEN strs[1]
    ELSE strs[1] \o sep \o Join(Tail(strs), sep)

\* the strings of length 0..n over an alphabet
RECURSIVE StringsUpTo(_, _)
StringsUpTo(alphabet, n) ==
    IF n = 0 THEN {<<>>}
    ELSE LET shorter == StringsUpTo(alphabet, n - 1)
         IN  shorter \cup {Append(s, c) : s \in {t \in shorter : Len(t) = n - 1}, c \in alphabet}

(***************************************************************************)
(* constants.ts                                                            *)
(***************************************************************************)
BACKSLASH == "\\"
NO_ESCAPE == ""
DEFAULT_PATH_OPERATORS == {"/"}
MATRIX_PATH_OPERATORS == {"/", ";", "="}

(***************************************************************************)
(* The tokenizer (@softwareplumber/abstract-tokenizer), an external        *)
(* collaborator: Tokens.fromString(text, escape, operators) yields         *)
(* CHAR_SEQUENCE tokens (maximal runs of literal text, escapes resolved)   *)
(* and OPERATOR tokens (one unescaped operator character each).  The       *)
(* escape character makes the character after it literal; an empty escape  *)
(* symbol equals no character.  No token is produced for an empty run.     *)
(* Inputs that end in an unpaired escape are outside the modelled domain   *)
(* (WellEscaped).                                                          *)
(***************************************************************************)
CHAR_SEQUENCE == "CHAR_SEQUENCE"
OPERATOR == "OPERATOR"

Token(type, data) == [type |-> type, data |-> data]

RECURSIVE Scan(_, _, _, _, _)
Scan(s, i, buffer, escape, operators) ==
    LET flush == IF buffer = <<>> THEN <<>> ELSE <<Token(CHAR_SEQUENCE, buffer)>>
    IN  IF i > Len(s) THEN flush
        ELSE IF s[i] = escape
             THEN IF i < Len(s)
                  THEN Scan(s, i + 2, Append(buffer, s[i + 1]), escape, operators)
                  ELSE flush
        ELSE IF s[i] \in operators
             THEN flush \o <<Token(OPERATOR, <<s[i]>>)>> \o Scan(s, i + 1, <<>>, escape, operators)
        ELSE Scan(s, i + 1, Append(buffer, s[i]), escape, operators)

Tokenize(s, escape, operators) == Scan(s, 1, <<>>, escape, operators)

\* every escape character of s that is not itself escaped has a character after it
RECURSIVE WellEscapedFrom(_, _)
WellEscapedFrom(s, i) ==
    IF i > Len(s) THEN TRUE
    ELSE IF s[i] = BACKSLASH THEN i < Len(s) /\ WellEscapedFrom(s, i + 2)
    ELSE WellEscapedFrom(s, i + 1)

WellEscaped(s) == WellEscapedFrom(s, 1)

(***************************************************************************)
(* The escaping codec (path.ts:136-139).                                   *)
(***************************************************************************)
\* faulty variant: the operator token is emitted without the escape prefix
escapeTokenPlain(token, escape) == token.data

\* const escapeToken = (token) => token.type === OPERATOR ? escape + token.data : token.data
escapeToken(token, escape) ==
    IF token.type = OPERATOR THEN <<escape>> \o token.data ELSE token.data

\* faulty variant: the escape character is not folded into the operator set
escapeStringNoFold(value, escape, operators) ==
    LET tokens == Tokenize(value, NO_ESCAPE, operators)
    IN  Join([i \in 1..Len(tokens) |-> escapeToken(tokens[i], escape)], <<>>)

escapeString(value, escape, operators) ==
    LET tokens == Tokenize(value, NO_ESCAPE, operators \cup {escape})
    IN  Join([i \in 1..Len(tokens) |-> escapeToken(tokens[i], escape)], <<>>)

(***************************************************************************)
(* The generic Path container (path.ts:145-284).  A path object is its     *)
(* concrete class and its element array.                                   *)
(***************************************************************************)
NewPath(cls, elements) == [cls |-> cls, elements |-> elements]

\* static of(...elements) { return new this([...elements]) }
PathOf(cls, elements) == NewPath(cls, elements)

\* the elements.push loop of Path.parse
RECURSIVE CollectCharSequences(_)
CollectCharSequences(tokens) ==
    IF tokens = <<>> THEN <<>>
    ELSE IF Head(tokens).type = CHAR_SEQUENCE
         THEN <<Head(tokens).data>> \o CollectCharSequences(Tail(tokens))
         ELSE CollectCharSequences(Tail(tokens))

\* faulty variant: every token is pushed, whatever its type
PathParseAllTokens(cls, path) ==
    LET tokens == Tokenize(path, BACKSLASH, DEFAULT_PATH_OPERATORS)
    IN  NewPath(cls, [i \in 1..Len(tokens) |-> tokens[i].data])

PathParse(cls, path) ==
    NewPath(cls, CollectCharSequences(Tokenize(path, BACKSLASH, DEFAULT_PATH_OPERATORS)))

PathToString(self, escape, operators) ==
    Join([i \in 1..Len(self.elements) |->
              escapeString(String(self.elements[i]), escape, operators)], <<"/">>)

(***************************************************************************)
(* SpecPath: Path.parse, Path.of and Path.toString on bounded strings.     *)
(***************************************************************************)
PathAlphabet == {"a", "b", "/", BACKSLASH}
Texts == StringsUpTo(PathAlphabet, MaxLen)

IdleBuilder ==
    /\ builder = Undefined
    /\ pstate = "idle"
    /\ result = Undefined
    /\ consumed = <<>>

IdleDerive ==
    /\ recv = Undefined
    /\ origin = "none"
    /\ lastOp = "none"
    /\ prev = Undefined
    /\ args = <<>>

IdleMatch ==
    /\ lhs = Undefined
    /\ rhs = Undefined
    /\ verdict = FALSE
    /\ op = "idle"

IdleOwn ==
    /\ heap = <<>>
    /\ objs = <<>>

IdlePath ==
    /\ text = <<>>
    /\ segments = <<>>
    /\ pathObj = Undefined
    /\ rendered = Undefined
    /\ reparsed = Undefined
    /\ pc = "idle"

InitPath ==
    /\ text \in Texts
    /\ pathObj = Undefined
    /\ rendered = Undefined
    /\ reparsed = Undefined
    /\ pc = "start"
    /\ segments = <<>>
    /\ IdleBuilder
    /\ IdleDerive
    /\ IdleMatch
    /\ IdleOwn

\* pathObj = Path.parse(text)
ParseText ==
    /\ pc = "start"
    /\ WellEscaped(text)
    /\ pathObj' = PathParse("Path", text)
    /\ pc' = "parsed"
    /\ UNCHANGED <<text, rendered, reparsed, segments, builderVars, deriveVars, matchVars, ownVars>>

\* rendered = pathObj.toString()
RenderParsed ==
    /\ pc = "parsed"
    /\ rendered' = PathToString(pathObj, BACKSLASH, DEFAULT_PATH_OPERATORS)
    /\ pc' = "rendered"
    /\ UNCHANGED <<text, pathObj, reparsed, segments, builderVars, deriveVars, matchVars, ownVars>>

\* pathObj = Path.of(text)
OfValue ==
    /\ pc = "start"
    /\ pathObj' = PathOf("Path", <<text>>)
    /\ pc' = "of"
    /\ UNCHANGED <<text, rendered, reparsed, segments, builderVars, deriveVars, matchVars, ownVars>>

\* rendered = pathObj.toString(escape, operators)
RenderOf ==
    /\ pc = "of"
    /\ rendered' = PathToString(pathObj, BACKSLASH, DEFAULT_PATH_OPERATORS)
    /\ pc' = "ofRendered"
    /\ UNCHANGED <<text, pathObj, reparsed, segments, builderVars, deriveVars, matchVars, ownVars>>

\* reparsed = Path.parse(rendered)
ReparseRendered ==
    /\ pc = "ofRendered"
    /\ reparsed' = PathParse("Path", rendered)
    /\ pc' = "reparsed"
    /\ UNCHANGED <<text, pathObj, rendered, segments, builderVars, deriveVars, matchVars, ownVars>>

NextPath ==
    \/ ParseText
    \/ RenderParsed
    \/ OfValue
    \/ RenderOf
    \/ ReparseRendered

SpecPath == InitPath /\ [][NextPath]_vars

(***************************************************************************)
(* Reference notions for the claims about Path.parse and Path.toString,    *)
(* stated on the positions of the input string and not by scanning it.     *)
(***************************************************************************)
Min(S) == CHOOSE x \in S : \A y \in S : x <= y

\* the character at position i is made literal by an escape character before it
RECURSIVE IsEscaped(_, _)
IsEscaped(s, i) == i > 1 /\ s[i - 1] = BACKSLASH /\ ~IsEscaped(s, i - 1)

\* the positions of the unescaped delimiters and of the escaping escape characters
Delims(s) == {i \in 1..Len(s) : s[i] = "/" /\ ~IsEscaped(s, i)}
Escapes(s) == {i \in 1..Len(s) : s[i] = BACKSLASH /\ ~IsEscaped(s, i)}

\* the characters at positions j..hi-1 without the escaping escape characters
RECURSIVE ResolvedRun(_, _, _)
ResolvedRun(s, j, hi) ==
    IF j >= hi THEN <<>>
    ELSE (IF j \in Escapes(s) THEN <<>> ELSE <<s[j]>>) \o ResolvedRun(s, j + 1, hi)

\* the non-empty escape-resolved runs after boundary lo (0 or a delimiter), in order
RECURSIVE RunsFrom(_, _)
RunsFrom(s, lo) ==
    LET later == {d \in Delims(s) : d > lo}
        hi == IF later = {} THEN Len(s) + 1 ELSE Min(later)
        run == ResolvedRun(s, lo + 1, hi)
    IN  (IF run = <<>> THEN <<>> ELSE <<run>>)
            \o (IF hi > Len(s) THEN <<>> ELSE RunsFrom(s, hi))

LiteralRuns(s) == RunsFrom(s, 0)

\* s is text that Path.toString can produce: segments are non-empty and the
\* escape character stands only before a delimiter or another escape character
IsCanonical(s) ==
    /\ WellEscaped(s)
    /\ \A i \in Escapes(s) : s[i + 1] \in {"/", BACKSLASH}
    /\ \A d \in Delims(s) : d > 1 /\ d < Len(s) /\ (d + 1) \notin Delims(s)

(***************************************************************************)
(* Claims settled under SpecPath.                                          *)
(***************************************************************************)
\* C2 (as stated): for every input string s over plain characters, '/' and '\',
\* Path.parse(s).toString() = s.
C2_RoundTripAnyString == pc = "rendered" => rendered = text

\* C2 (amended): for every canonical input string s (no empty segment, escape
\* only before '/' or '\'), Path.parse(s).toString() = s.
C2_RoundTripCanonical == (pc = "rendered" /\ IsCanonical(text)) => rendered = text

C2_Witness ==
    /\ pc = "rendered"
    /\ text = <<"a", BACKSLASH, "/", "b">>
    /\ pathObj.elements = << <<"a", "/", "b">> >>
    /\ rendered = text

\* C4: Path.parse(text) holds, in order, the non-empty escape-resolved literal
\* runs between the unescaped '/' delimiters of text, and the empty string
\* gives a path of length zero.
C4_ParseLiteralRuns ==
    pc = "parsed" =>
        /\ pathObj.elements = LiteralRuns(text)
        /\ (text = <<>> => Len(pathObj.elements) = 0)

C4_Witness ==
    /\ pc = "parsed"
    /\ text = <<BACKSLASH, BACKSLASH, "/", "b">>
    /\ pathObj.elements = << <<BACKSLASH>>, <<"b">> >>

\* C5 (as stated): for every string value, the empty string included,
\* Path.parse(Path.of(value).toString()) is the one-element path <<value>>.
C5_CodecRoundTripAnyValue == pc = "reparsed" => reparsed.elements = <<text>>

\* C5 (amended): for every non-empty string value,
\* Path.parse(Path.of(value).toString()) is the one-element path <<value>>.
C5_CodecRoundTripNonEmpty ==
    (pc = "reparsed" /\ text # <<>>) => reparsed.elements = <<text>>

C5_Witness ==
    /\ pc = "reparsed"
    /\ text = <<"a", "/", BACKSLASH>>
    /\ rendered = <<"a", BACKSLASH, "/", BACKSLASH, BACKSLASH>>
    /\ reparsed.elements = <<text>>

(***************************************************************************)
(* Map<string, T | null> (path.ts:313): insertion-ordered, one entry per   *)
(* key, as a sequence of [key, value] records.                             *)
(***************************************************************************)
EmptyMap == <<>>

MapHas(map, key) == \E i \in 1..Len(map) : map[i].key = key

\* Map.prototype.get: undefined when the key is absent
MapGet(map, key) ==
    IF MapHas(map, key)
    THEN map[CHOOSE i \in 1..Len(map) : map[i].key = key].value
    ELSE Undefined

\* Map.prototype.set: a present key keeps its place and takes the new value
MapSet(map, key, value) ==
    IF MapHas(map, key)
    THEN [i \in 1..Len(map) |->
              IF map[i].key = key THEN [key |-> key, value |-> value] ELSE map[i]]
    ELSE Append(map, [key |-> key, value |-> value])

MapSize(map) == Len(map)

MapKeys(map) == {map[i].key : i \in 1..Len(map)}

(***************************************************************************)
(* PathElementString (path.ts:317-331).                                    *)
(***************************************************************************)
PathElementString(name, attr) == [name |-> name, attr |-> attr]

(***************************************************************************)
(* MatrixPathBuilder (path.ts:377-428).                                    *)
(***************************************************************************)
\* nameof for MatrixPath.parse: t => t (path.ts:434)
nameofString(t) == t

\* constructor
NewMatrixPathBuilder ==
    [path |-> <<>>, attr |-> EmptyMap, attrName |-> Undefined, name |-> Undefined,
     lastDelim |-> <<"/">>]

addOperator(b, type) == [b EXCEPT !.lastDelim = type]

\* faulty variant: the '=' case never raises
addValueThrowsNever(b) == FALSE

\* addValue raises Error('unexpected =')
addValueThrows(b) == b.lastDelim = <<"=">> /\ b.attrName = Undefined

\* addValue when it does not raise
addValue(b, value) ==
    CASE b.lastDelim = <<"=">> ->
            [b EXCEPT !.attr = MapSet(b.attr, b.attrName, value), !.attrName = Undefined]
      [] b.lastDelim = <<";">> ->
            [b EXCEPT !.attr = IF b.attrName # Undefined
                               THEN MapSet(b.attr, b.attrName, Null) ELSE b.attr,
                      !.attrName = nameofString(value)]
      [] b.lastDelim = <<"/">> ->
            IF b.name # Undefined
            THEN [b EXCEPT !.path = Append(b.path, PathElementString(b.name, b.attr)),
                           !.attr = EmptyMap,
                           !.attrName = Undefined,
                           !.name = value]
            ELSE [b EXCEPT !.name = value]
      [] OTHER -> b

\* faulty variant: build() returns the elements pushed so far and drops the
\* element still pending
buildWithoutPending(b) == b

\* build(): the builder after the call; the array returned is its path
build(b) ==
    LET attr == IF b.attrName # Undefined THEN MapSet(b.attr, b.attrName, Null) ELSE b.attr
    IN  [b EXCEPT !.attr = attr,
                  !.path = IF b.name # Undefined
                           THEN Append(b.path, PathElementString(b.name, attr))
                           ELSE b.path]

(***************************************************************************)
(* MatrixPath (path.ts:431-461).  A call either returns a value or throws. *)
(***************************************************************************)
Return(value) == [thrown |-> FALSE, value |-> value]
Throw(message) == [thrown |-> TRUE, value |-> message]

\* the token loop of MatrixPath.parse; an exception leaves the loop
RECURSIVE FeedTokens(_, _)
FeedTokens(b, tokens) ==
    IF tokens = <<>> THEN Return(b)
    ELSE LET token == Head(tokens)
         IN  IF token.type = CHAR_SEQUENCE
             THEN IF addValueThrows(b)
                  THEN Throw("unexpected =")
                  ELSE FeedTokens(addValue(b, token.data), Tail(tokens))
             ELSE FeedTokens(addOperator(b, token.data), Tail(tokens))

MatrixPathParse(cls, path, escape) ==
    LET fed == FeedTokens(NewMatrixPathBuilder, Tokenize(path, escape, MATRIX_PATH_OPERATORS))
    IN  IF fed.thrown THEN fed ELSE Return(NewPath(cls, build(fed.value).path))

MatrixPathToString(self, escape, operators) ==
    LET mapAttr(entry) ==
            escapeString(entry.key, escape, operators) \o <<"=">>
                \o escapeString(String(entry.value), escape, operators)
        mapElement(element) ==
            escapeString(element.name, escape, operators)
                \o (IF MapSize(element.attr) > 0
                    THEN <<";">> \o Join([i \in 1..Len(element.attr) |->
                                              mapAttr(element.attr[i])], <<";">>)
                    ELSE <<>>)
    IN  Join([i \in 1..Len(self.elements) |-> mapElement(self.elements[i])], <<"/">>)

(***************************************************************************)
(* Spec: the token loop of MatrixPath.parse, one loop iteration per step.  *)
(* The tokenizer hands over any operator at any time and a literal at the  *)
(* start or after an operator (two literals are never adjacent).           *)
(***************************************************************************)
Literals == {<<"a">>, <<"b">>}

Init ==
    /\ builder = NewMatrixPathBuilder
    /\ pstate = "parsing"
    /\ result = Undefined
    /\ consumed = <<>>
    /\ IdlePath
    /\ IdleDerive
    /\ IdleMatch
    /\ IdleOwn

\* if (token.type === TokenType.OPERATOR) builder.addOperator(token.data)
TakeOperator ==
    /\ pstate = "parsing"
    /\ Len(consumed) < MaxTokens
    /\ \E c \in MATRIX_PATH_OPERATORS :
          /\ builder' = addOperator(builder, <<c>>)
          /\ consumed' = Append(consumed, Token(OPERATOR, <<c>>))
    /\ UNCHANGED <<pstate, result, pathVars, deriveVars, matchVars, ownVars>>

\* if (token.type === TokenType.CHAR_SEQUENCE) builder.addValue(token.data)
TakeCharSequence ==
    /\ pstate = "parsing"
    /\ Len(consumed) < MaxTokens
    /\ IF consumed = <<>> THEN TRUE ELSE consumed[Len(consumed)].type = OPERATOR
    /\ \E value \in Literals :
          /\ consumed' = Append(consumed, Token(CHAR_SEQUENCE, value))
          /\ IF addValueThrows(builder)
             THEN pstate' = "thrown" /\ builder' = builder
             ELSE pstate' = pstate /\ builder' = addValue(builder, value)
    /\ UNCHANGED <<result, pathVars, deriveVars, matchVars, ownVars>>

\* return new this(builder.build())
EndOfInput ==
    /\ pstate = "parsing"
    /\ builder' = build(builder)
    /\ result' = NewPath("MatrixPath", builder'.path)
    /\ pstate' = "returned"
    /\ UNCHANGED <<consumed, pathVars, deriveVars, matchVars, ownVars>>

Next ==
    \/ TakeOperator
    \/ TakeCharSequence
    \/ EndOfInput

Spec == Init /\ [][Next]_vars

(***************************************************************************)
(* Claims settled under Spec.                                              *)
(***************************************************************************)
Last(seq) == seq[Len(seq)]

\* C9: a step of MatrixPath.parse that hands a literal to the builder raises
\* 'unexpected =' exactly when the last operator seen is '=' and no attribute
\* key is pending; the raise ends the parse with no path returned (no step
\* follows it), and no other step raises.
C9_UnexpectedEquals ==
    [][ /\ pstate = "parsing"
        /\ IF consumed' # consumed /\ Last(consumed').type = CHAR_SEQUENCE
           THEN /\ (pstate' = "thrown")
                      <=> (builder.lastDelim = <<"=">> /\ builder.attrName = Undefined)
                /\ pstate' = "thrown" => (result' = Undefined /\ builder' = builder)
           ELSE pstate' # "thrown"
      ]_vars

\* 'a;b=a=b' (the claim's 'a;k=v=w'): the second '=' finds no pending key
C9_Witness ==
    /\ pstate = "thrown"
    /\ result = Undefined
    /\ consumed = << Token(CHAR_SEQUENCE, <<"a">>), Token(OPERATOR, <<";">>),
                     Token(CHAR_SEQUENCE, <<"b">>), Token(OPERATOR, <<"=">>),
                     Token(CHAR_SEQUENCE, <<"a">>), Token(OPERATOR, <<"=">>),
                     Token(CHAR_SEQUENCE, <<"b">>) >>

\* the operator seen last before position i of the token history; the
\* builder starts as if '/' had been seen
LastOperatorBefore(tokens, i) ==
    LET ops == {j \in 1..(i - 1) : tokens[j].type = OPERATOR}
    IN  IF ops = {} THEN <<"/">>
        ELSE tokens[CHOOSE j \in ops : \A l \in ops : l <= j].data

\* a literal handed over while the last operator seen was delim
LiteralAfter(tokens, i, delim) ==
    /\ tokens[i].type = CHAR_SEQUENCE
    /\ LastOperatorBefore(tokens, i) = delim

NamePositions(tokens) ==
    {i \in 1..Len(tokens) : LiteralAfter(tokens, i, <<"/">>)}

\* the position of the k-th literal in name position
NamePosition(tokens, k) ==
    CHOOSE i \in NamePositions(tokens) :
        Cardinality({j \in NamePositions(tokens) : j <= i}) = k

\* C13: when the parse returns, the path holds exactly one element per
\* literal handed to the builder while the last operator seen was '/', in
\* the order of the calls and each named by its literal; operators that
\* follow one another, lead or trail add no element, and no element has an
\* undefined or empty name.
C13_ElementPerNameLiteral ==
    pstate = "returned" =>
        /\ Len(result.elements) = Cardinality(NamePositions(consumed))
        /\ \A k \in 1..Len(result.elements) :
              /\ result.elements[k].name = consumed[NamePosition(consumed, k)].data
              /\ result.elements[k].name # Undefined
              /\ result.elements[k].name # <<>>

\* '/a//b;': a leading operator, two operators in a row and a trailing one
C13_Witness ==
    /\ pstate = "returned"
    /\ consumed = << Token(OPERATOR, <<"/">>), Token(CHAR_SEQUENCE, <<"a">>),
                     Token(OPERATOR, <<"/">>), Token(OPERATOR, <<"/">>),
                     Token(CHAR_SEQUENCE, <<"b">>), Token(OPERATOR, <<";">>) >>
    /\ Len(result.elements) = 2

\* the tokens of the segment of the k-th element: those after its name
\* literal and before the next literal in name position
SegmentPositions(tokens, k) ==
    LET from == NamePosition(tokens, k)
        to == IF k < Cardinality(NamePositions(tokens))
              THEN NamePosition(tokens, k + 1) - 1
              ELSE Len(tokens)
    IN  (from + 1)..to

\* key (with value, or with null for a bare key) is declared at positions
\* among seg: a literal after ';' gives the key, and the value is null or a
\* literal after '=' that follows with no other key in between
DeclaredIn(tokens, seg, key, value) ==
    \E i \in seg :
        /\ LiteralAfter(tokens, i, <<";">>)
        /\ tokens[i].data = key
        /\ \/ value = Null
           \/ \E j \in seg :
                 /\ i < j
                 /\ LiteralAfter(tokens, j, <<"=">>)
                 /\ tokens[j].data = value
                 /\ \A l \in (i + 1)..(j - 1) : ~LiteralAfter(tokens, l, <<";">>)

\* C14: when the parse returns, every attribute of every element of the path
\* was declared by ';key' or ';key=value' tokens of that element's own
\* segment: tokens before the first name and tokens of other segments give
\* an element no key and no value.
C14_NoAttributeLeak ==
    pstate = "returned" =>
        \A k \in 1..Len(result.elements) :
            \A e \in 1..Len(result.elements[k].attr) :
                DeclaredIn(consumed, SegmentPositions(consumed, k),
                           result.elements[k].attr[e].key,
                           result.elements[k].attr[e].value)

\* the part of C14 that the builder keeps: when an element name comes before
\* every attribute literal, every attribute was declared in its own segment
C14_AfterFirstName ==
    (/\ pstate = "returned"
     /\ \A i \in 1..Len(consumed) :
            (consumed[i].type = CHAR_SEQUENCE /\ ~LiteralAfter(consumed, i, <<"/">>))
                => \E j \in NamePositions(consumed) : j < i) =>
        \A k \in 1..Len(result.elements) :
            \A e \in 1..Len(result.elements[k].attr) :
                DeclaredIn(consumed, SegmentPositions(consumed, k),
                           result.elements[k].attr[e].key,
                           result.elements[k].attr[e].value)

(***************************************************************************)
(* Path.equals and PathElementString.equals (path.ts:252-259, 326-330).    *)
(***************************************************************************)
PathElementStringEquals(self, other) ==
    /\ self.name = other.name
    /\ MapSize(self.attr) = MapSize(other.attr)
    /\ \A name \in MapKeys(self.attr) : MapGet(self.attr, name) = MapGet(other.attr, name)

\* MatrixPath.compareElements
MatrixPathCompareElements(a, b) == PathElementStringEquals(a, b)

\* Path.equals for a MatrixPath (path === this gives the same answer as the
\* comparison, PathElementString.equals being reflexive)
MatrixPathEquals(self, path) ==
    IF Len(self.elements) = Len(path.elements)
    THEN \A i \in 1..Len(path.elements) :
             MatrixPathCompareElements(path.elements[i], self.elements[i])
    ELSE FALSE

(***************************************************************************)
(* SpecMatrix: MatrixPath.parse and MatrixPath.toString on input strings   *)
(* written by the grammar  segment = name (';' attr-name ('=' value)?)*    *)
(* from a sequence of segments.  A segment is a name and a list of         *)
(* attributes, each a key and a value or Null for a bare flag.             *)
(***************************************************************************)
SegmentNames == {<<"a">>, <<"b">>}
Flag(key) == [key |-> <<key>>, value |-> Null]
Valued(key) == [key |-> <<key>>, value |-> <<"v">>]
SegmentAttrs ==
    { <<>>, <<Flag("k")>>, <<Valued("k")>>,
      <<Flag("k"), Flag("j")>>, <<Valued("k"), Flag("j")>>,
      <<Flag("k"), Valued("j")>>, <<Valued("k"), Valued("j")>> }
Segments == {[name |-> n, attr |-> a] : n \in SegmentNames, a \in SegmentAttrs}

RECURSIVE SeqsUpTo(_, _)
SeqsUpTo(S, n) ==
    IF n = 0 THEN {<<>>}
    ELSE LET shorter == SeqsUpTo(S, n - 1)
         IN  shorter \cup {Append(q, x) : q \in {t \in shorter : Len(t) = n - 1}, x \in S}

\* the text of a sequence of segments under the matrix grammar
AttrText(entry) ==
    <<";">> \o entry.key \o (IF entry.value = Null THEN <<>> ELSE <<"=">> \o entry.value)
SegmentText(segment) ==
    segment.name \o Join([i \in 1..Len(segment.attr) |-> AttrText(segment.attr[i])], <<>>)
GrammarText(segs) == Join([i \in 1..Len(segs) |-> SegmentText(segs[i])], <<"/">>)

InitMatrix ==
    /\ segments \in SeqsUpTo(Segments, MaxSegments)
    /\ text = GrammarText(segments)
    /\ pathObj = Undefined
    /\ rendered = Undefined
    /\ reparsed = Undefined
    /\ pc = "start"
    /\ IdleBuilder
    /\ IdleDerive
    /\ IdleMatch
    /\ IdleOwn

\* pathObj = MatrixPath.parse(text)
MatrixParseText ==
    /\ pc = "start"
    /\ LET r == MatrixPathParse("MatrixPath", text, BACKSLASH)
       IN  IF r.thrown
           THEN pc' = "thrown" /\ pathObj' = pathObj
           ELSE pc' = "parsed" /\ pathObj' = r.value
    /\ UNCHANGED <<text, segments, rendered, reparsed, builderVars, deriveVars, matchVars, ownVars>>

\* rendered = pathObj.toString()
MatrixRender ==
    /\ pc = "parsed"
    /\ rendered' = MatrixPathToString(pathObj, BACKSLASH, MATRIX_PATH_OPERATORS)
    /\ pc' = "rendered"
    /\ UNCHANGED <<text, segments, pathObj, reparsed, builderVars, deriveVars, matchVars, ownVars>>

\* reparsed = MatrixPath.parse(rendered)
MatrixReparse ==
    /\ pc = "rendered"
    /\ LET r == MatrixPathParse("MatrixPath", rendered, BACKSLASH)
       IN  IF r.thrown
           THEN pc' = "thrown" /\ reparsed' = reparsed
           ELSE pc' = "reparsed" /\ reparsed' = r.value
    /\ UNCHANGED <<text, segments, pathObj, rendered, builderVars, deriveVars, matchVars, ownVars>>

NextMatrix ==
    \/ MatrixParseText
    \/ MatrixRender
    \/ MatrixReparse

SpecMatrix == InitMatrix /\ [][NextMatrix]_vars

(***************************************************************************)
(* Claims settled under SpecMatrix.                                        *)
(***************************************************************************)
\* C1: for every MatrixPath p, MatrixPath.parse(p.toString()) equals p under
\* MatrixPath.equals; a null-valued attribute is still null-valued afterwards.
C1_MatrixRoundTrip ==
    /\ pc # "thrown"
    /\ pc = "reparsed" => MatrixPathEquals(reparsed, pathObj)

\* the element a segment of the grammar stands for, against the element parsed
ElementOfSegment(element, segment) ==
    /\ element.name = segment.name
    /\ MapKeys(element.attr) = MapKeys(segment.attr)
    /\ \A key \in MapKeys(segment.attr) : MapGet(element.attr, key) = MapGet(segment.attr, key)

\* C3: MatrixPath.parse returns one element per segment, in order, with the
\* segment's name and exactly its attributes, a bare flag mapped to null,
\* whatever the position of the segment.
C3_GrammarConformance ==
    /\ pc # "thrown"
    /\ pc = "parsed" =>
          /\ Len(pathObj.elements) = Len(segments)
          /\ \A i \in 1..Len(segments) : ElementOfSegment(pathObj.elements[i], segments[i])

(***************************************************************************)
(* Derivations of the generic Path container (path.ts:179-229, 277-279).   *)
(***************************************************************************)
Max2(a, b) == IF a >= b THEN a ELSE b
Min2(a, b) == IF a <= b THEN a ELSE b

\* Array.prototype.slice(begin, end): negative indices count from the end and
\* both are clamped to 0..length; the result is a new array
ArraySlice(array, begin, end) ==
    LET len == Len(array)
        k == IF begin < 0 THEN Max2(len + begin, 0) ELSE Min2(begin, len)
        final == IF end < 0 THEN Max2(len + end, 0) ELSE Min2(end, len)
    IN  SubSeq(array, k + 1, final)

\* Array.prototype.slice(begin): end is the length
ArraySliceFrom(array, begin) == ArraySlice(array, begin, Len(array))

PathClasses == {"Path", "PatternPath", "MatrixPath", "MatrixPathPattern"}

\* faulty variant: the result is always a plain Path (return new Path(elements))
createPathPlain(self, elements) == NewPath("Path", elements)

\* _createPath: new (this.constructor)(elements)
createPath(self, elements) == NewPath(self.cls, elements)

\* faulty variant: consume returns the elements consumed, not the rest
PathConsumeFirst(self, length) == createPath(self, ArraySlice(self.elements, 0, length))

PathTail(self) == createPath(self, ArraySliceFrom(self.elements, 1))
PathConsume(self, length) == createPath(self, ArraySliceFrom(self.elements, length))
PathParent(self) == createPath(self, ArraySlice(self.elements, 0, -1))
PathAdd(self, elements) == createPath(self, self.elements \o elements)
PathAddAll(self, path) == PathAdd(self, path.elements)
PathPrepend(self, element) == createPath(self, <<element>> \o self.elements)
PathSlice(self, begin, end) == createPath(self, ArraySlice(self.elements, begin, end))

(***************************************************************************)
(* SpecDerive: a path of any concrete class, and derivations applied to    *)
(* the path derived last, in any order.                                    *)
(***************************************************************************)
Elems == {<<"a">>, <<"b">>}
Indices == (0 - MaxElems - 1)..(MaxElems + 1)

InitDerive ==
    /\ \E cls \in PathClasses, elements \in SeqsUpTo(Elems, MaxElems) :
          /\ recv = NewPath(cls, elements)
          /\ origin = cls
    /\ lastOp = "none"
    /\ prev = Undefined
    /\ args = <<>>
    /\ IdleBuilder
    /\ IdlePath
    /\ IdleMatch
    /\ IdleOwn

DeriveTail ==
    /\ recv' = PathTail(recv)
    /\ prev' = recv
    /\ args' = <<>>
    /\ lastOp' = "tail"
    /\ UNCHANGED <<origin, builderVars, pathVars, matchVars, ownVars>>

DeriveParent ==
    /\ recv' = PathParent(recv)
    /\ prev' = recv
    /\ args' = <<>>
    /\ lastOp' = "parent"
    /\ UNCHANGED <<origin, builderVars, pathVars, matchVars, ownVars>>

DeriveConsume ==
    /\ \E length \in Indices :
          /\ recv' = PathConsume(recv, length)
          /\ args' = <<length>>
    /\ prev' = recv
    /\ lastOp' = "consume"
    /\ UNCHANGED <<origin, builderVars, pathVars, matchVars, ownVars>>

DeriveSlice ==
    /\ \E begin \in Indices, end \in Indices :
          /\ recv' = PathSlice(recv, begin, end)
          /\ args' = <<begin, end>>
    /\ prev' = recv
    /\ lastOp' = "slice"
    /\ UNCHANGED <<origin, builderVars, pathVars, matchVars, ownVars>>

DeriveAdd ==
    /\ \E elements \in SeqsUpTo(Elems, MaxElems) :
          /\ Len(recv.elements) + Len(elements) <= MaxElems
          /\ recv' = PathAdd(recv, elements)
          /\ args' = <<elements>>
    /\ prev' = recv
    /\ lastOp' = "add"
    /\ UNCHANGED <<origin, builderVars, pathVars, matchVars, ownVars>>

DeriveAddAll ==
    /\ \E cls \in PathClasses, elements \in SeqsUpTo(Elems, MaxElems) :
          /\ Len(recv.elements) + Len(elements) <= MaxElems
          /\ recv' = PathAddAll(recv, NewPath(cls, elements))
          /\ args' = <<NewPath(cls, elements)>>
    /\ prev' = recv
    /\ lastOp' = "addAll"
    /\ UNCHANGED <<origin, builderVars, pathVars, matchVars, ownVars>>

DerivePrepend ==
    /\ Len(recv.elements) < MaxElems
    /\ \E element \in Elems :
          /\ recv' = PathPrepend(recv, element)
          /\ args' = <<element>>
    /\ prev' = recv
    /\ lastOp' = "prepend"
    /\ UNCHANGED <<origin, builderVars, pathVars, matchVars, ownVars>>

NextDerive ==
    \/ DeriveTail
    \/ DeriveParent
    \/ DeriveConsume
    \/ DeriveSlice
    \/ DeriveAdd
    \/ DeriveAddAll
    \/ DerivePrepend

SpecDerive == InitDerive /\ [][NextDerive]_vars

(***************************************************************************)
(* Claims settled under SpecDerive.                                        *)
(***************************************************************************)
\* C6: whatever derivations (tail, parent, consume, slice, add, addAll,
\* prepend) are applied, in any number and order, to a path of class Path,
\* PatternPath, MatrixPath or MatrixPathPattern, every step returns a path of
\* the class of its receiver, so the class stays that of the first receiver.
C6_CovariantSelfType ==
    [][recv'.cls = recv.cls /\ recv'.cls = origin]_vars

C6_Witness ==
    /\ origin = "MatrixPathPattern"
    /\ lastOp = "addAll"
    /\ recv = NewPath("MatrixPathPattern", <<<<"a">>, <<"b">>>>)

\* result holds exactly the elements of array at the 0-based indices i with
\* from <= i < to, in order
IsRange(out, array, from, to) ==
    /\ Len(out) = Max2(to - from, 0)
    /\ \A j \in 1..Len(out) : out[j] = array[from + j]

\* the index a relative position stands for in an array of len elements, as
\* in Array.prototype.slice: a negative position counts from the end, and the
\* index is clamped to 0..len
RelativeIndex(pos, len) ==
    IF pos < 0 THEN Max2(len + pos, 0) ELSE Min2(pos, len)

IsPathObject(p) ==
    /\ p.cls \in PathClasses
    /\ p.elements \in SeqsUpTo(Elems, MaxElems)

\* C12 as stated: tail, parent, consume(n) and slice(begin, end) return a
\* path for every receiver and all integers; slice returns exactly the
\* elements at indices max(0, begin) <= i < min(length, end), consume(n)
\* those at indices i >= max(0, n); tail and parent of the empty path are
\* empty.
C12_ClampToZero ==
    LET p == prev.elements
    IN  /\ lastOp \in {"tail", "parent", "consume", "slice"} => IsPathObject(recv)
        /\ lastOp = "slice" =>
              IsRange(recv.elements, p, Max2(0, args[1]), Min2(Len(p), args[2]))
        /\ lastOp = "consume" =>
              IsRange(recv.elements, p, Max2(0, args[1]), Len(p))
        /\ (lastOp \in {"tail", "parent"} /\ p = <<>>) => recv.elements = <<>>

\* C12, amended: tail, parent, consume(n) and slice(begin, end) return a
\* path for every receiver and all integers; a non-negative begin, end or n
\* is clamped to the length and a negative one counts from the end of the
\* path (clamped at index 0); slice returns exactly the elements at the
\* indices from begin's index up to, not including, end's index, consume(n)
\* those from n's index on; tail and parent of the empty path are empty.
C12_RelativeIndices ==
    LET p == prev.elements
    IN  /\ lastOp \in {"tail", "parent", "consume", "slice"} => IsPathObject(recv)
        /\ lastOp = "slice" =>
              IsRange(recv.elements, p, RelativeIndex(args[1], Len(p)),
                                        RelativeIndex(args[2], Len(p)))
        /\ lastOp = "consume" =>
              IsRange(recv.elements, p, RelativeIndex(args[1], Len(p)), Len(p))
        /\ (lastOp \in {"tail", "parent"} /\ p = <<>>) => recv.elements = <<>>

\* consume(-1) of a two-element path has returned its last element
C12_Witness ==
    /\ lastOp = "consume"
    /\ args = <<0 - 1>>
    /\ prev.elements = <<<<"a">>, <<"b">>>>
    /\ recv.elements = <<<<"b">>>>

(***************************************************************************)
(* The pattern engine (@softwareplumber/abstract-pattern), an external     *)
(* collaborator.  A Pattern is an object: id is its identity (what ===     *)
(* compares) and glob its compiled unix wildcard, a sequence of literal    *)
(* characters, ANY_CHAR ('?') and ANY_SEQ ('*').  PNull and PUndefined     *)
(* stand for null and undefined where a Pattern is expected.               *)
(***************************************************************************)
ANY_CHAR == "<?>"
ANY_SEQ == "<*>"

NewPattern(id, glob) == [id |-> id, glob |-> glob]
PNull == [id |-> 0, glob |-> Null]
PUndefined == [id |-> -1, glob |-> Undefined]

RECURSIVE GlobMatch(_, _)
GlobMatch(glob, s) ==
    IF glob = <<>> THEN s = <<>>
    ELSE IF Head(glob) = ANY_SEQ
         THEN GlobMatch(Tail(glob), s) \/ (s # <<>> /\ GlobMatch(glob, Tail(s)))
    ELSE /\ s # <<>>
         /\ (Head(glob) = ANY_CHAR \/ Head(glob) = Head(s))
         /\ GlobMatch(Tail(glob), Tail(s))

\* Pattern.test(candidate)
PatternTest(pattern, candidate) == GlobMatch(pattern.glob, candidate)

\* Pattern.equals(other)
PatternEquals(pattern, other) == pattern.glob = other.glob

\* a === b on Pattern | null | undefined
PatternSame(a, b) == a.id = b.id

\* Map.prototype.get on a Map<string, Pattern | null>
PatternMapGet(map, key) ==
    IF MapHas(map, key)
    THEN map[CHOOSE i \in 1..Len(map) : map[i].key = key].value
    ELSE PUndefined

(***************************************************************************)
(* PathElementPattern (path.ts:333-369).                                   *)
(***************************************************************************)
PathElementPattern(name, attr) == [name |-> name, attr |-> attr]

\* faulty variant: a bare flag in the pattern accepts any target
TestAttributeFlagAny(attribute, pattern, target) ==
    LET value == MapGet(target.attr, attribute)
    IN  IF pattern = PNull THEN TRUE
        ELSE IF value = Null \/ value = Undefined THEN FALSE
        ELSE PatternTest(pattern, value)

\* the callback of every() in test (path.ts:340-345)
TestAttribute(attribute, pattern, target) ==
    LET value == MapGet(target.attr, attribute)
    IN  IF pattern = PNull /\ value = Null THEN TRUE
        ELSE IF pattern = PNull \/ value = Null \/ value = Undefined THEN FALSE
        ELSE PatternTest(pattern, value)

\* [...this.attr].every(callback), from entry i on
RECURSIVE TestAttributesFrom(_, _, _)
TestAttributesFrom(self, target, i) ==
    IF i > Len(self.attr) THEN TRUE
    ELSE IF ~TestAttribute(self.attr[i].key, self.attr[i].value, target) THEN FALSE
    ELSE TestAttributesFrom(self, target, i + 1)

PathElementPatternTest(self, target) ==
    PatternTest(self.name, target.name) /\ TestAttributesFrom(self, target, 1)

\* the callback of every() in equals (path.ts:361-367)
EqualsAttribute(self, other, name) ==
    LET patA == PatternMapGet(self.attr, name)
        patB == PatternMapGet(other.attr, name)
    IN  IF PatternSame(patA, patB) THEN TRUE
        ELSE IF patA \in {PNull, PUndefined} \/ patB \in {PNull, PUndefined} THEN FALSE
        ELSE PatternEquals(patA, patB)

PathElementPatternEquals(self, other) ==
    IF PatternSame(self.name, other.name) THEN TRUE
    ELSE IF self.name \in {PNull, PUndefined} \/ other.name \in {PNull, PUndefined} THEN FALSE
    ELSE /\ PatternEquals(self.name, other.name)
         /\ MapSize(self.attr) = MapSize(other.attr)
         /\ \A i \in 1..Len(self.attr) : EqualsAttribute(self, other, self.attr[i].key)

(***************************************************************************)
(* Path.matches (path.ts:261-267).                                         *)
(***************************************************************************)
\* v.test(x): the predicate is a PathElementPattern or a Pattern
IPredicateTest(v, x) ==
    IF "attr" \in DOMAIN v THEN PathElementPatternTest(v, x) ELSE PatternTest(v, x)

\* wildcards.elements.every((v,i) => v.test(this.elements[i])), from index i on
RECURSIVE MatchesFrom(_, _, _)
MatchesFrom(self, wildcards, i) ==
    IF i > Len(wildcards.elements) THEN TRUE
    ELSE IF ~IPredicateTest(wildcards.elements[i], self.elements[i]) THEN FALSE
    ELSE MatchesFrom(self, wildcards, i + 1)

\* faulty variant: the lengths are compared with >= (as startsWith does)
PathMatchesPrefix(self, wildcards) ==
    IF Len(self.elements) >= Len(wildcards.elements)
    THEN MatchesFrom(self, wildcards, 1)
    ELSE FALSE

PathMatches(self, wildcards) ==
    IF Len(self.elements) = Len(wildcards.elements)
    THEN MatchesFrom(self, wildcards, 1)
    ELSE FALSE

(***************************************************************************)
(* SpecMatch: Path.matches, PathElementPattern.test and the two equals     *)
(* methods applied to bounded receivers and arguments.                     *)
(***************************************************************************)
\* concrete values
NameStrings == {<<"a">>, <<"a", "b">>, <<"b">>}
TargetValues == {Null, <<"v">>, <<"v", "v">>}
TargetAttrs ==
    {<<>>} \cup {<<[key |-> <<"k">>, value |-> v]>> : v \in TargetValues}
           \cup {<<[key |-> <<"j">>, value |-> v]>> : v \in TargetValues}
           \cup {<<[key |-> <<"k">>, value |-> v], [key |-> <<"j">>, value |-> w]>> :
                    v \in TargetValues, w \in TargetValues}
Targets == {PathElementString(n, a) : n \in {<<"a">>, <<"b">>}, a \in TargetAttrs}

\* Pattern objects; 1 and 2, and 3 and 6, are distinct objects with equal content
NamePatterns ==
    {NewPattern(1, <<"a">>), NewPattern(2, <<"a">>), NewPattern(4, <<"a", ANY_SEQ>>)}
WildPatterns == NamePatterns \cup {NewPattern(3, <<ANY_CHAR>>)}
ValuePatterns ==
    {PNull, NewPattern(3, <<ANY_CHAR>>), NewPattern(6, <<ANY_CHAR>>), NewPattern(5, <<"v">>)}
PatternAttrs ==
    {<<>>} \cup {<<[key |-> <<"k">>, value |-> v]>> : v \in ValuePatterns}
           \cup {<<[key |-> <<"j">>, value |-> v]>> : v \in {PNull, NewPattern(5, <<"v">>)}}
           \cup {<<[key |-> <<"k">>, value |-> v], [key |-> <<"j">>, value |-> w]>> :
                    v \in ValuePatterns, w \in {PNull, NewPattern(5, <<"v">>)}}
PatternElements == {PathElementPattern(n, a) : n \in NamePatterns, a \in PatternAttrs}

\* the elements of the matrix paths handed to Path.matches
MatrixTargets ==
    { PathElementString(<<"a">>, <<>>),
      PathElementString(<<"a">>, <<[key |-> <<"k">>, value |-> <<"v">>]>>),
      PathElementString(<<"b">>, <<[key |-> <<"k">>, value |-> Null]>>) }
MatrixPatterns ==
    { PathElementPattern(NewPattern(1, <<"a">>), <<>>),
      PathElementPattern(NewPattern(4, <<"a", ANY_SEQ>>),
                         <<[key |-> <<"k">>, value |-> NewPattern(3, <<ANY_CHAR>>)]>>),
      PathElementPattern(NewPattern(7, <<ANY_SEQ>>), <<[key |-> <<"k">>, value |-> PNull]>>) }

InitMatch ==
    /\ \/ /\ op = "matches"
          /\ lhs \in {NewPath("Path", e) : e \in SeqsUpTo(NameStrings, MaxElems)}
          /\ rhs \in {NewPath("PatternPath", e) : e \in SeqsUpTo(WildPatterns, MaxElems)}
       \/ /\ op = "matches"
          /\ lhs \in {NewPath("MatrixPath", e) : e \in SeqsUpTo(MatrixTargets, MaxElems)}
          /\ rhs \in {NewPath("MatrixPathPattern", e) : e \in SeqsUpTo(MatrixPatterns, MaxElems)}
       \/ /\ op = "test"
          /\ lhs \in PatternElements
          /\ rhs \in Targets
       \/ /\ op = "equalsString"
          /\ lhs \in Targets
          /\ rhs \in Targets
       \/ /\ op = "equalsPattern"
          /\ lhs \in PatternElements
          /\ rhs \in PatternElements
    /\ verdict = FALSE
    /\ IdleBuilder
    /\ IdlePath
    /\ IdleDerive
    /\ IdleOwn

\* verdict = lhs.matches(rhs)
CallMatches ==
    /\ op = "matches"
    /\ verdict' = PathMatches(lhs, rhs)
    /\ op' = "matched"
    /\ UNCHANGED <<lhs, rhs, builderVars, pathVars, deriveVars, ownVars>>

\* verdict = lhs.test(rhs)
CallTest ==
    /\ op = "test"
    /\ verdict' = PathElementPatternTest(lhs, rhs)
    /\ op' = "tested"
    /\ UNCHANGED <<lhs, rhs, builderVars, pathVars, deriveVars, ownVars>>

\* verdict = lhs.equals(rhs), PathElementString
CallEqualsString ==
    /\ op = "equalsString"
    /\ verdict' = PathElementStringEquals(lhs, rhs)
    /\ op' = "comparedString"
    /\ UNCHANGED <<lhs, rhs, builderVars, pathVars, deriveVars, ownVars>>

\* verdict = lhs.equals(rhs), PathElementPattern
CallEqualsPattern ==
    /\ op = "equalsPattern"
    /\ verdict' = PathElementPatternEquals(lhs, rhs)
    /\ op' = "comparedPattern"
    /\ UNCHANGED <<lhs, rhs, builderVars, pathVars, deriveVars, ownVars>>

NextMatch ==
    \/ CallMatches
    \/ CallTest
    \/ CallEqualsString
    \/ CallEqualsPattern

SpecMatch == InitMatch /\ [][NextMatch]_vars

(***************************************************************************)
(* Claims settled under SpecMatch.                                         *)
(***************************************************************************)
\* C7: a.matches(patterns) is true if and only if the lengths are equal and
\* patterns.element(i).test(a.element(i)) is true at every index i; a pattern
\* path of another length never matches.
C7_MatchesIffAllTest ==
    op = "matched" =>
        /\ verdict <=>
              /\ Len(lhs.elements) = Len(rhs.elements)
              /\ \A i \in 1..Len(rhs.elements) :
                     IPredicateTest(rhs.elements[i], lhs.elements[i])
        /\ Len(lhs.elements) # Len(rhs.elements) => ~verdict

C7_Witness ==
    /\ op = "matched"
    /\ verdict
    /\ lhs = NewPath("Path", << <<"b">>, <<"a", "b">> >>)
    /\ rhs = NewPath("PatternPath", <<NewPattern(3, <<ANY_CHAR>>), NewPattern(4, <<"a", ANY_SEQ>>)>>)

\* what the claim asks of one attribute of the pattern element
AttributeAccepted(key, pattern, target) ==
    /\ MapHas(target.attr, key)
    /\ IF pattern = PNull
       THEN MapGet(target.attr, key) = Null
       ELSE /\ MapGet(target.attr, key) # Null
            /\ PatternTest(pattern, MapGet(target.attr, key))

\* the target without the attributes whose key is not in keys
RestrictTo(target, keys) ==
    LET Mentioned(entry) == entry.key \in keys
    IN  PathElementString(target.name, SelectSeq(target.attr, Mentioned))

\* C8: PathElementPattern.test(target) is true if and only if the name
\* pattern matches target.name and every attribute of the pattern is accepted:
\* a null pattern by a present null value, a non-null pattern by a present
\* non-null value it matches; attributes of the target that the pattern does
\* not mention do not change the result.
C8_ElementTest ==
    op = "tested" =>
        /\ verdict <=>
              /\ PatternTest(lhs.name, rhs.name)
              /\ \A i \in 1..Len(lhs.attr) :
                     AttributeAccepted(lhs.attr[i].key, lhs.attr[i].value, rhs)
        /\ verdict <=> PathElementPatternTest(lhs, RestrictTo(rhs, MapKeys(lhs.attr)))

C8_Witness ==
    /\ op = "tested"
    /\ verdict
    /\ lhs = PathElementPattern(NewPattern(4, <<"a", ANY_SEQ>>),
                                <<[key |-> <<"k">>, value |-> PNull]>>)
    /\ rhs = PathElementString(<<"a">>, <<[key |-> <<"k">>, value |-> Null],
                                          [key |-> <<"j">>, value |-> <<"v">>]>>)

\* equality of two attribute values as the claim states it: null equals only null
PatternValueEqual(a, b) ==
    IF a = PNull \/ b = PNull THEN a = b ELSE PatternEquals(a, b)

SameStringElement(a, b) ==
    /\ a.name = b.name
    /\ MapKeys(a.attr) = MapKeys(b.attr)
    /\ \A key \in MapKeys(a.attr) : MapGet(a.attr, key) = MapGet(b.attr, key)

SamePatternElement(a, b) ==
    /\ PatternEquals(a.name, b.name)
    /\ MapKeys(a.attr) = MapKeys(b.attr)
    /\ \A key \in MapKeys(a.attr) :
           PatternValueEqual(PatternMapGet(a.attr, key), PatternMapGet(b.attr, key))

\* C10: for PathElementString.equals and PathElementPattern.equals alike,
\* a.equals(b) is true if and only if the names are equal and the attribute
\* mappings have the same keys with equal values, null equal only to null.
C10_ElementEquality ==
    /\ op = "comparedString" => (verdict <=> SameStringElement(lhs, rhs))
    /\ op = "comparedPattern" => (verdict <=> SamePatternElement(lhs, rhs))

(***************************************************************************)
(* Storage of the elements.  An array is a cell of the heap and a reference *)
(* is its index; a Path object holds a reference in its elements field.     *)
(***************************************************************************)
MaxPaths == 3

\* a new array holding items; its reference is the new length of the heap
Alloc(h, items) == Append(h, items)

\* constructor(elements): undefined gives a new empty array, an Array is
\* stored as it is given, any other Iterable is spread into a new array
PathConstructor(h, cls, arg) ==
    CASE arg.kind = "undefined" ->
            [heap |-> Alloc(h, <<>>), obj |-> [cls |-> cls, elements |-> Len(h) + 1]]
      [] arg.kind = "array" ->
            [heap |-> h, obj |-> [cls |-> cls, elements |-> arg.ref]]
      [] arg.kind = "iterable" ->
            [heap |-> Alloc(h, arg.items), obj |-> [cls |-> cls, elements |-> Len(h) + 1]]

\* static of(...elements): new this([...elements]); the spread is a new array
PathOfItems(h, cls, items) ==
    PathConstructor(Alloc(h, items), cls, [kind |-> "array", ref |-> Len(h) + 1])

\* the value of a Path object: its class and the content of its array
View(h, o) == NewPath(o.cls, h[o.elements])

\* a derivation's result: slice and spread give a new array, which
\* _createPath hands to the constructor of the receiver's class
Derived(h, path) ==
    PathConstructor(Alloc(h, path.elements), path.cls,
                    [kind |-> "array", ref |-> Len(h) + 1])

(***************************************************************************)
(* SpecOwn: a caller holds an array (reference InputRef), builds paths from *)
(* it, derives paths from those paths, and goes on mutating its array.      *)
(***************************************************************************)
InputRef == 1

\* arguments of consume and slice: from the end, the start, and inside
OwnIndices == {0 - 1, 0, 1}

InitOwn ==
    /\ \E input \in SeqsUpTo(Elems, MaxElems) : heap = <<input>>
    /\ objs = <<>>
    /\ IdleBuilder
    /\ IdlePath
    /\ IdleDerive
    /\ IdleMatch

\* the object is recorded with the content it was built with
Built(c) ==
    /\ Len(objs) < MaxPaths
    /\ heap' = c.heap
    /\ objs' = Append(objs, [cls |-> c.obj.cls, elements |-> c.obj.elements,
                             made |-> c.heap[c.obj.elements]])
    /\ UNCHANGED <<builderVars, pathVars, deriveVars, matchVars>>

\* new Path(input)
NewFromArray ==
    Built(PathConstructor(heap, "Path", [kind |-> "array", ref |-> InputRef]))

\* new Path(input.values()), new Path(new Set(...)): an Iterable, not an Array
NewFromIterable ==
    Built(PathConstructor(heap, "Path", [kind |-> "iterable", items |-> heap[InputRef]]))

\* new Path()
NewFromUndefined ==
    Built(PathConstructor(heap, "Path", [kind |-> "undefined"]))

\* Path.of(...input)
OfInput ==
    Built(PathOfItems(heap, "Path", heap[InputRef]))

OwnTail ==
    \E i \in 1..Len(objs) : Built(Derived(heap, PathTail(View(heap, objs[i]))))

OwnParent ==
    \E i \in 1..Len(objs) : Built(Derived(heap, PathParent(View(heap, objs[i]))))

OwnConsume ==
    \E i \in 1..Len(objs), length \in OwnIndices :
        Built(Derived(heap, PathConsume(View(heap, objs[i]), length)))

OwnSlice ==
    \E i \in 1..Len(objs), begin \in OwnIndices, end \in OwnIndices :
        Built(Derived(heap, PathSlice(View(heap, objs[i]), begin, end)))

OwnAdd ==
    \E i \in 1..Len(objs), elements \in SeqsUpTo(Elems, 1) :
        /\ Len(heap[objs[i].elements]) + Len(elements) <= MaxElems
        /\ Built(Derived(heap, PathAdd(View(heap, objs[i]), elements)))

OwnAddAll ==
    \E i \in 1..Len(objs), j \in 1..Len(objs) :
        /\ Len(heap[objs[i].elements]) + Len(heap[objs[j].elements]) <= MaxElems
        /\ Built(Derived(heap, PathAddAll(View(heap, objs[i]), View(heap, objs[j]))))

OwnPrepend ==
    \E i \in 1..Len(objs), element \in Elems :
        /\ Len(heap[objs[i].elements]) < MaxElems
        /\ Built(Derived(heap, PathPrepend(View(heap, objs[i]), element)))

\* the caller's input.push(element)
InputPush ==
    /\ Len(heap[InputRef]) < MaxElems
    /\ \E element \in Elems :
          heap' = [heap EXCEPT ![InputRef] = Append(@, element)]
    /\ UNCHANGED <<objs, builderVars, pathVars, deriveVars, matchVars>>

\* the caller's input.pop()
InputPop ==
    /\ heap[InputRef] # <<>>
    /\ heap' = [heap EXCEPT ![InputRef] = SubSeq(@, 1, Len(@) - 1)]
    /\ UNCHANGED <<objs, builderVars, pathVars, deriveVars, matchVars>>

\* the caller's input[index] = element
InputAssign ==
    /\ \E index \in 1..Len(heap[InputRef]), element \in Elems :
          heap' = [heap EXCEPT ![InputRef][index] = element]
    /\ UNCHANGED <<objs, builderVars, pathVars, deriveVars, matchVars>>

NextOwn ==
    \/ NewFromArray
    \/ NewFromIterable
    \/ NewFromUndefined
    \/ OfInput
    \/ OwnTail
    \/ OwnParent
    \/ OwnConsume
    \/ OwnSlice
    \/ OwnAdd
    \/ OwnAddAll
    \/ OwnPrepend
    \/ InputPush
    \/ InputPop
    \/ InputAssign

SpecOwn == InitOwn /\ [][NextOwn]_vars

(***************************************************************************)
(* Claims settled under SpecOwn.                                           *)
(***************************************************************************)
\* C11: a Path built by the constructor or by of(...) from an input sequence
\* holds a copy of it, so neither a later mutation of that input nor any
\* derivation (tail, parent, consume, slice, add, addAll, prepend) changes
\* the length or the elements of a Path that exists: every Path keeps the
\* content it was built with.
C11_Ownership ==
    \A i \in 1..Len(objs) : heap[objs[i].elements] = objs[i].made

\* the part of C11 that does not go through the constructor's Array branch:
\* a Path whose array is not the caller's keeps the content it was built with
C11_CopiesKeepContent ==
    \A i \in 1..Len(objs) :
        objs[i].elements # InputRef => heap[objs[i].elements] = objs[i].made

\* no array is the storage of two Path objects
C11_NoSharingBetweenPaths ==
    \A i \in 1..Len(objs), j \in 1..Len(objs) :
        (i # j /\ objs[i].elements = objs[j].elements) => objs[i].elements = InputRef

====
